---- MODULE Spec2Model ----
(***************************************************************************)
(* AIS data collector (collect_ais.py): one invocation of main() fetches   *)
(* position reports, filters them to the Baltic bounding box, fetches and  *)
(* joins vessel metadata, appends rows to the SQLite store and rewrites    *)
(* data/ais/latest.json.  An external scheduler invokes main() repeatedly. *)
(*                                                                         *)
(* Conventions.  Longitudes and latitudes are tenths of a degree, so the   *)
(* box 17.0 .. 30.3 / 58.5 .. 66.0 is 170 .. 303 / 585 .. 660.  Text is a  *)
(* sequence of Unicode code points.  A JSON/Python value that may be       *)
(* None, absent or present is a tagged record.  The run's timestamp is the *)
(* run number (the clock is read once per invocation and increases).  Of   *)
(* the pass-through properties sog, cog, heading, navStat and posAcc only  *)
(* sog is carried; the others are copied by the same props.get(...) calls. *)
(* collection_time_ms is a clock difference no operation reads back and is *)
(* left out of the summary row.                                            *)
(***************************************************************************)
EXTENDS Integers, Sequences, FiniteSets, TLC

\* ------------------------------------------------------------------ bounds
MaxRuns == 2
MaxFeatures == 2
MaxMeta == 2
MaxFilterLen == 2

\* ------------------------------------------------------------------ values
None == [k |-> "none"]
Missing == [k |-> "missing"]
Str(s) == [k |-> "str", s |-> s]
Num(n) == [k |-> "num", n |-> n]

BBOX == [min_lon |-> 170, max_lon |-> 303, min_lat |-> 585, max_lat |-> 660]

Point(lon, lat) == [k |-> "point", coordinates |-> <<lon, lat>>]
NoCoordinates == [k |-> "nocoords"]
Feature(mmsi, sog, geometry) ==
    [properties |-> [mmsi |-> mmsi, sog |-> sog], geometry |-> geometry]

\* A JSON object is its set of keys and the value under 'features'.
FeatureCollection(features) ==
    [k |-> "dict", keys |-> {"type", "features"}, features |-> features]
NoFeaturesDocument == [k |-> "dict", keys |-> {"message"}, features |-> <<>>]
EmptyDocument == [k |-> "dict", keys |-> {}, features |-> <<>>]
EmptyList == [k |-> "list", items |-> <<>>]

VesselEntry(mmsi, name, shipType, destination, eta, draught) ==
    [mmsi |-> mmsi, name |-> name, shipType |-> shipType,
     destination |-> destination, eta |-> eta, draught |-> draught]

EmptyDict == [m \in {} |-> None]

\* All sequences over S of length at most n.
SeqUpTo(S, n) == UNION {[1..m -> S] : m \in 0..n}

\* ------------------------------------------------------------------ inputs
\* Position features the locations endpoint may return.
PositionFeatures ==
    { Feature(1, Num(5), Point(200, 600)),     \* inside the box
      Feature(2, None,   Point(170, 585)),     \* on the south-west corner
      Feature(1, Num(5), Point(100, 600)),     \* west of the box
      Feature(2, None,   Missing) }            \* no geometry

\* What fetch_ais_data may return: None on any exception, else the parsed
\* body: {}, [], 0, "", an object without 'features', a feature collection.
PositionResponses ==
    {None, EmptyDocument, EmptyList, Num(0), Str(<<>>), NoFeaturesDocument}
        \cup {FeatureCollection(fs) : fs \in SeqUpTo(PositionFeatures, MaxFeatures)}

\* Metadata records the vessels endpoint may return.
MetadataEntries ==
    { VesselEntry(1, Str(<<32, 9, 65>>), Num(70), Str(<<88, 10, 32>>), Num(9), Num(30)),
      VesselEntry(2, None, Num(80), Str(<<89>>), None, None),
      VesselEntry(2, Missing, Missing, Missing, Missing, Missing) }

VesselList_json(entries) == [k |-> "list", entries |-> entries]
MetadataResponses ==
    {None} \cup {VesselList_json(es) : es \in SeqUpTo(MetadataEntries, MaxMeta)}

\* Inputs of the filter alone: every edge of the box, one step inside and
\* one step outside it, and the two malformed shapes.
EdgeLons == {169, 170, 200, 303, 304}
EdgeLats == {584, 585, 600, 660, 661}
FilterFeatures ==
    {Feature(1, None, Point(lon, lat)) : lon \in EdgeLons, lat \in EdgeLats}
        \cup {Feature(2, None, Missing), Feature(2, None, NoCoordinates)}
FilterInputs ==
    {FeatureCollection(fs) : fs \in SeqUpTo(FilterFeatures, MaxFilterLen)}

\* ------------------------------------------------------- pure functions
\* The code points str.strip() removes: those for which str.isspace() holds.
Whitespace ==
    {9, 10, 11, 12, 13, 28, 29, 30, 31, 32, 133, 160, 5760} \cup (8192..8202)
        \cup {8232, 8233, 8239, 8287, 12288}

\* str.strip()
RECURSIVE LStrip(_)
LStrip(s) == IF s # <<>> /\ Head(s) \in Whitespace THEN LStrip(Tail(s)) ELSE s
RECURSIVE RStrip(_)
RStrip(s) ==
    IF s # <<>> /\ s[Len(s)] \in Whitespace
    THEN RStrip(SubSeq(s, 1, Len(s) - 1)) ELSE s
strip(s) == RStrip(LStrip(s))

\* Python truth value of a JSON value: None, {}, [], 0 and "" are false.
Truthy(v) ==
    CASE v.k = "none" -> FALSE
      [] v.k = "dict" -> v.keys # {}
      [] v.k = "list" -> v.items # <<>>
      [] v.k = "num" -> v.n # 0
      [] v.k = "str" -> v.s # <<>>

\* dict.get(key, default) on a value that is Missing when the key is absent
Get(v, default) == IF v = Missing THEN default ELSE v

\* BBOX['min_lon'] <= lon <= BBOX['max_lon'] and BBOX['min_lat'] <= lat <= ...
InBoxStrict(lon, lat) ==
    /\ BBOX.min_lon < lon /\ lon <= BBOX.max_lon
    /\ BBOX.min_lat <= lat /\ lat <= BBOX.max_lat
InBox(lon, lat) ==
    /\ BBOX.min_lon <= lon /\ lon <= BBOX.max_lon
    /\ BBOX.min_lat <= lat /\ lat <= BBOX.max_lat

\* feature['geometry']['coordinates'] raises KeyError/TypeError unless the
\* feature has a geometry with coordinates.
HasCoordinates(feature) == feature.geometry.k = "point"

\* The loop of filter_vessels; raised = an exception left the function.
RECURSIVE FilterLoop(_, _)
FilterLoop(features, filtered) ==
    IF features = <<>> THEN [raised |-> FALSE, value |-> filtered]
    ELSE LET feature == Head(features) IN
         IF ~HasCoordinates(feature) THEN [raised |-> TRUE, value |-> <<>>]
         ELSE LET coords == feature.geometry.coordinates IN
              FilterLoop(Tail(features),
                         IF InBox(coords[1], coords[2])
                         THEN Append(filtered, feature) ELSE filtered)

filter_vessels(d) ==
    IF ~Truthy(d) \/ "features" \notin d.keys THEN [raised |-> FALSE, value |-> <<>>]
    ELSE FilterLoop(d.features, <<>>)

\* mmsi_list = [f['properties']['mmsi'] for f in vessels]
MmsiList(vs) == {vs[i].properties.mmsi : i \in 1..Len(vs)}

\* The lookup loop of fetch_vessel_metadata; raised = an exception was
\* thrown inside the try block (None.strip() is an AttributeError).
RECURSIVE BuildLookup(_, _, _)
BuildLookup(entries, mmsi_list, metadata) ==
    IF entries = <<>> THEN [raised |-> FALSE, value |-> metadata]
    ELSE LET vessel == Head(entries)
             mmsi == vessel.mmsi
             name == Get(vessel.name, Str(<<>>))
             destination == Get(vessel.destination, Str(<<>>))
         IN IF mmsi \notin mmsi_list
            THEN BuildLookup(Tail(entries), mmsi_list, metadata)
            ELSE IF name.k # "str" \/ destination.k # "str"
            THEN [raised |-> TRUE, value |-> EmptyDict]
            ELSE LET rec == [name |-> Str(strip(name.s)),
                             ship_type |-> Get(vessel.shipType, None),
                             destination |-> Str(strip(destination.s)),
                             eta |-> Get(vessel.eta, None),
                             draught |-> Get(vessel.draught, None)]
                 IN BuildLookup(Tail(entries), mmsi_list,
                                [m \in (DOMAIN metadata) \cup {mmsi} |->
                                    IF m = mmsi THEN rec ELSE metadata[m]])

\* vessel_metadata.get(mmsi, {}).get(field)
MetaGet(vessel_metadata, mmsi, field) ==
    IF mmsi \in DOMAIN vessel_metadata THEN vessel_metadata[mmsi][field] ELSE None

\* The tuple bound to the INSERT INTO vessel_positions statement.
PositionRow(feature, vessel_metadata, timestamp) ==
    LET mmsi == feature.properties.mmsi IN
    [timestamp |-> timestamp,
     mmsi |-> mmsi,
     name |-> MetaGet(vessel_metadata, mmsi, "name"),
     longitude |-> feature.geometry.coordinates[1],
     latitude |-> feature.geometry.coordinates[2],
     sog |-> feature.properties.sog,
     ship_type |-> MetaGet(vessel_metadata, mmsi, "ship_type"),
     destination |-> MetaGet(vessel_metadata, mmsi, "destination"),
     eta |-> MetaGet(vessel_metadata, mmsi, "eta"),
     draught |-> MetaGet(vessel_metadata, mmsi, "draught")]

SummaryRow(vs, timestamp) == [timestamp |-> timestamp, vessel_count |-> Len(vs)]

\* One element of vessel_list in export_latest_json.
SnapshotEntry(feature, vessel_metadata) ==
    LET mmsi == feature.properties.mmsi IN
    [mmsi |-> mmsi,
     name |-> MetaGet(vessel_metadata, mmsi, "name"),
     lon |-> feature.geometry.coordinates[1],
     lat |-> feature.geometry.coordinates[2],
     sog |-> feature.properties.sog,
     ship_type |-> MetaGet(vessel_metadata, mmsi, "ship_type"),
     destination |-> MetaGet(vessel_metadata, mmsi, "destination")]

VesselList(vs, vessel_metadata) ==
    [i \in 1..Len(vs) |-> SnapshotEntry(vs[i], vessel_metadata)]

\* json.dump(output, f): the chunks written to the file, in order.
Serialize(output) ==
    <<[t |-> "timestamp", timestamp |-> output.timestamp],
      [t |-> "vessel_count", vessel_count |-> output.vessel_count]>>
    \o [i \in 1..Len(output.vessels) |-> [t |-> "vessel", vessel |-> output.vessels[i]]]
    \o <<[t |-> "end"]>>

\* What a reader of latest.json gets: None when the file is absent or is not
\* a complete JSON document, else the parsed document.
Parse(file) ==
    LET c == file.content
        n == Len(c)
    IN IF ~file.exists \/ n < 3 \/ c[n].t # "end" THEN None
       ELSE [k |-> "doc",
             timestamp |-> c[1].timestamp,
             vessel_count |-> c[2].vessel_count,
             vessels |-> [i \in 1..(n - 3) |-> c[i + 2].vessel]]

AbsentFile == [exists |-> FALSE, content |-> <<>>]

\* ------------------------------------------------------------------- state
VARIABLES
    pc,                 \* orchestrator state of the current invocation of main()
    run,                \* number of the invocation; also its timestamp
    schema,             \* TRUE once data/ais/ais_history.db has its tables
    vessel_positions,   \* committed rows of table vessel_positions
    collection_summary, \* committed rows of table collection_summary
    latest_file,        \* data/ais/latest.json as a reader finds it
    data,               \* main: result of fetch_ais_data()
    vessels,            \* main: result of filter_vessels(data)
    response,           \* fetch_vessel_metadata: the parsed response, None on failure
    vessel_metadata,    \* main: the lookup returned by fetch_vessel_metadata
    txn,                \* save_to_database: rows inserted and not yet committed
    fh,                 \* export_latest_json: "open" while latest.json is open
    pre,                \* history: the store and the snapshot when the run began
    metaFailed,         \* history: the except clause of fetch_vessel_metadata ran
    crashedIn,          \* history: state in which an exception left main()
    exported,           \* history: the last run that opened latest.json
    committed,          \* history: run |-> len(vessels) for runs whose commit returned
    rolledBack          \* history: rows the run's failed save_to_database had inserted

vars == <<pc, run, schema, vessel_positions, collection_summary, latest_file, data,
          vessels, response, vessel_metadata, txn, fh, pre, metaFailed, crashedIn,
          exported, committed, rolledBack>>

store == <<schema, vessel_positions, collection_summary>>
locals == <<data, vessels, response, vessel_metadata>>
history == <<pre, metaFailed, crashedIn, exported, committed, rolledBack>>

EmptyTxn == [positions |-> <<>>, summary |-> <<>>]

Persistent ==
    [schema |-> schema, vessel_positions |-> vessel_positions,
     collection_summary |-> collection_summary, latest_file |-> latest_file]

\* A fresh checkout: no database file, no snapshot, first invocation.
Init ==
    /\ pc = "START"
    /\ run = 1
    /\ schema = FALSE
    /\ vessel_positions = <<>>
    /\ collection_summary = <<>>
    /\ latest_file = AbsentFile
    /\ data = None
    /\ vessels = <<>>
    /\ response = None
    /\ vessel_metadata = EmptyDict
    /\ txn = EmptyTxn
    /\ fh = "closed"
    /\ pre = [schema |-> FALSE, vessel_positions |-> <<>>,
              collection_summary |-> <<>>, latest_file |-> AbsentFile]
    /\ metaFailed = FALSE
    /\ crashedIn = "none"
    /\ exported = None
    /\ committed = EmptyDict
    /\ rolledBack = 0

\* ----------------------------------------------------------------- actions
\* init_database(): CREATE TABLE IF NOT EXISTS ...; sqlite3.connect or mkdir
\* may raise, and the exception leaves main().
InitDatabase ==
    /\ pc = "START"
    /\ \E ok \in BOOLEAN :
         IF ok
         THEN /\ schema' = TRUE
              /\ pc' = "FETCH_POSITIONS"
              /\ UNCHANGED crashedIn
         ELSE /\ pc' = "CRASHED"
              /\ crashedIn' = "START"
              /\ UNCHANGED schema
    /\ UNCHANGED <<run, vessel_positions, collection_summary, latest_file, locals,
                   txn, fh, pre, metaFailed, exported, committed, rolledBack>>

\* data = fetch_ais_data(); if not data: return
FetchAisDataContinue ==
    /\ pc = "FETCH_POSITIONS"
    /\ \E r \in PositionResponses :
         /\ data' = r
         /\ pc' = "FILTER"
    /\ UNCHANGED <<run, store, latest_file, vessels, response, vessel_metadata,
                   txn, fh, history>>
FetchAisData ==
    /\ pc = "FETCH_POSITIONS"
    /\ \E r \in PositionResponses :
         /\ data' = r
         /\ pc' = IF ~Truthy(r) THEN "ABORT" ELSE "FILTER"
    /\ UNCHANGED <<run, store, latest_file, vessels, response, vessel_metadata,
                   txn, fh, history>>

\* vessels = filter_vessels(data); mmsi_list = [...]
FilterVesselsSkipJoin ==
    /\ pc = "FILTER"
    /\ LET r == filter_vessels(data) IN
         /\ vessels' = r.value
         /\ pc' = IF r.raised THEN "CRASHED" ELSE "PERSIST"
         /\ crashedIn' = IF r.raised THEN "FILTER" ELSE crashedIn
    /\ UNCHANGED <<run, store, latest_file, data, response, vessel_metadata, txn, fh,
                   pre, metaFailed, exported, committed, rolledBack>>
FilterVessels ==
    /\ pc = "FILTER"
    /\ LET r == filter_vessels(data) IN
         /\ vessels' = r.value
         /\ pc' = IF r.raised THEN "CRASHED" ELSE "FETCH_METADATA"
         /\ crashedIn' = IF r.raised THEN "FILTER" ELSE crashedIn
    /\ UNCHANGED <<run, store, latest_file, data, response, vessel_metadata, txn, fh,
                   pre, metaFailed, exported, committed, rolledBack>>

\* fetch_vessel_metadata, the request: requests.get, raise_for_status,
\* response.json().  A failure of any of the three is response = None.
FetchMetadata ==
    /\ pc = "FETCH_METADATA"
    /\ \E r \in MetadataResponses : response' = r
    /\ pc' = "JOIN"
    /\ UNCHANGED <<run, store, latest_file, data, vessels, vessel_metadata, txn, fh,
                   history>>

\* fetch_vessel_metadata, the lookup: the for loop, and the except clause that
\* turns any exception of the try block into the empty lookup.
JoinNoExcept ==
    /\ pc = "JOIN"
    /\ LET r == IF response = None THEN [raised |-> TRUE, value |-> EmptyDict]
                ELSE BuildLookup(response.entries, MmsiList(vessels), EmptyDict)
       IN /\ vessel_metadata' = r.value
          /\ metaFailed' = r.raised
          /\ pc' = IF r.raised THEN "CRASHED" ELSE "PERSIST"
          /\ crashedIn' = IF r.raised THEN "JOIN" ELSE crashedIn
    /\ txn' = EmptyTxn
    /\ UNCHANGED <<run, store, latest_file, data, vessels, response, fh, pre,
                   exported, committed, rolledBack>>
Join ==
    /\ pc = "JOIN"
    /\ LET r == IF response = None THEN [raised |-> TRUE, value |-> EmptyDict]
                ELSE BuildLookup(response.entries, MmsiList(vessels), EmptyDict)
       IN /\ vessel_metadata' = IF r.raised THEN EmptyDict ELSE r.value
          /\ metaFailed' = r.raised
    /\ pc' = "PERSIST"
    /\ txn' = EmptyTxn
    /\ UNCHANGED <<run, store, latest_file, data, vessels, response, fh, pre,
                   crashedIn, exported, committed, rolledBack>>

\* save_to_database, one iteration of the for loop: cursor.execute(INSERT
\* INTO vessel_positions ...) inside the connection's open transaction.
SaveInsertAutocommit ==
    /\ pc = "PERSIST"
    /\ txn.summary = <<>>
    /\ Len(txn.positions) < Len(vessels)
    /\ vessel_positions' = Append(vessel_positions,
            PositionRow(vessels[Len(txn.positions) + 1], vessel_metadata, run))
    /\ txn' = [txn EXCEPT !.positions =
                 Append(@, PositionRow(vessels[Len(@) + 1], vessel_metadata, run))]
    /\ UNCHANGED <<pc, run, schema, collection_summary, latest_file, locals, fh,
                   history>>
SaveInsert ==
    /\ pc = "PERSIST"
    /\ txn.summary = <<>>
    /\ Len(txn.positions) < Len(vessels)
    /\ txn' = [txn EXCEPT !.positions =
                 Append(@, PositionRow(vessels[Len(@) + 1], vessel_metadata, run))]
    /\ UNCHANGED <<pc, run, store, latest_file, locals, fh, history>>

\* save_to_database: cursor.execute(INSERT INTO collection_summary ...)
SaveSummary ==
    /\ pc = "PERSIST"
    /\ txn.summary = <<>>
    /\ Len(txn.positions) = Len(vessels)
    /\ txn' = [txn EXCEPT !.summary = <<SummaryRow(vessels, run)>>]
    /\ UNCHANGED <<pc, run, store, latest_file, locals, fh, history>>

\* save_to_database: conn.commit(); conn.close()
SaveCommit ==
    /\ pc = "PERSIST"
    /\ txn.summary # <<>>
    /\ vessel_positions' = vessel_positions \o txn.positions
    /\ collection_summary' = collection_summary \o txn.summary
    /\ txn' = EmptyTxn
    /\ committed' = [t \in (DOMAIN committed) \cup {run} |->
                        IF t = run THEN Len(vessels) ELSE committed[t]]
    /\ pc' = "EXPORT"
    /\ UNCHANGED <<run, schema, latest_file, locals, fh, pre, metaFailed, crashedIn,
                   exported, rolledBack>>

\* save_to_database: connect, an execute or the commit raises, or the process
\* dies; the open transaction is rolled back and the exception leaves main().
SaveFailSwallowed ==
    /\ pc = "PERSIST"
    /\ txn' = EmptyTxn
    /\ pc' = "EXPORT"
    /\ rolledBack' = Len(txn.positions) + Len(txn.summary)
    /\ UNCHANGED <<run, store, latest_file, locals, fh, pre, metaFailed, crashedIn,
                   exported, committed>>
SaveFail ==
    /\ pc = "PERSIST"
    /\ txn' = EmptyTxn
    /\ pc' = "CRASHED"
    /\ crashedIn' = "PERSIST"
    /\ rolledBack' = Len(txn.positions) + Len(txn.summary)
    /\ UNCHANGED <<run, store, latest_file, locals, fh, pre, metaFailed, exported,
                   committed>>

Output == [timestamp |-> run, vessel_count |-> Len(VesselList(vessels, vessel_metadata)),
           vessels |-> VesselList(vessels, vessel_metadata)]

\* export_latest_json: open(latest_file, 'w') creates or truncates the file.
ExportOpenAppend ==
    /\ pc = "EXPORT"
    /\ fh = "closed"
    /\ latest_file' = [latest_file EXCEPT !.exists = TRUE]
    /\ fh' = "open"
    /\ exported' = [k |-> "run", timestamp |-> run, vessels |-> vessels,
                    complete |-> FALSE]
    /\ UNCHANGED <<pc, run, store, locals, txn, pre, metaFailed, crashedIn, committed,
                   rolledBack>>
ExportOpen ==
    /\ pc = "EXPORT"
    /\ fh = "closed"
    /\ latest_file' = [exists |-> TRUE, content |-> <<>>]
    /\ fh' = "open"
    /\ exported' = [k |-> "run", timestamp |-> run, vessels |-> vessels,
                    complete |-> FALSE]
    /\ UNCHANGED <<pc, run, store, locals, txn, pre, metaFailed, crashedIn, committed,
                   rolledBack>>

\* export_latest_json: json.dump writes the next chunk of the document.
ExportWrite ==
    /\ pc = "EXPORT"
    /\ fh = "open"
    /\ Len(latest_file.content) < Len(Serialize(Output))
    /\ latest_file' = [latest_file EXCEPT !.content =
                         Append(@, Serialize(Output)[Len(@) + 1])]
    /\ UNCHANGED <<pc, run, store, locals, txn, fh, history>>

\* export_latest_json: the with block closes the file; main() returns.
ExportClose ==
    /\ pc = "EXPORT"
    /\ fh = "open"
    /\ Len(latest_file.content) = Len(Serialize(Output))
    /\ fh' = "closed"
    /\ exported' = [exported EXCEPT !.complete = TRUE]
    /\ pc' = "DONE"
    /\ UNCHANGED <<run, store, latest_file, locals, txn, pre, metaFailed, crashedIn,
                   committed, rolledBack>>

\* export_latest_json: open or a write raises, or the process dies; what has
\* reached the file stays there and the exception leaves main().
ExportFail ==
    /\ pc = "EXPORT"
    /\ fh' = "closed"
    /\ pc' = "CRASHED"
    /\ crashedIn' = "EXPORT"
    /\ UNCHANGED <<run, store, latest_file, locals, txn, pre, metaFailed, exported,
                   committed, rolledBack>>

\* The scheduler invokes main() again after the previous process has ended.
NewRun ==
    /\ pc \in {"DONE", "ABORT", "CRASHED"}
    /\ run < MaxRuns
    /\ run' = run + 1
    /\ pc' = "START"
    /\ data' = None
    /\ vessels' = <<>>
    /\ response' = None
    /\ vessel_metadata' = EmptyDict
    /\ pre' = Persistent
    /\ metaFailed' = FALSE
    /\ crashedIn' = "none"
    /\ rolledBack' = 0
    /\ UNCHANGED <<store, latest_file, txn, fh, exported, committed>>

Next ==
    \/ InitDatabase
    \/ FetchAisData
    \/ FilterVessels
    \/ FetchMetadata
    \/ Join
    \/ SaveInsert
    \/ SaveSummary
    \/ SaveCommit
    \/ SaveFail
    \/ ExportOpen
    \/ ExportWrite
    \/ ExportClose
    \/ ExportFail
    \/ NewRun

Spec == Init /\ [][Next]_vars

\* The filter on its own: main() has fetched a collection and is about to
\* call filter_vessels on it.
InitFilter ==
    /\ pc = "FILTER"
    /\ run = 1
    /\ schema = TRUE
    /\ vessel_positions = <<>>
    /\ collection_summary = <<>>
    /\ latest_file = AbsentFile
    /\ data \in FilterInputs
    /\ vessels = <<>>
    /\ response = None
    /\ vessel_metadata = EmptyDict
    /\ txn = EmptyTxn
    /\ fh = "closed"
    /\ pre = [schema |-> FALSE, vessel_positions |-> <<>>,
              collection_summary |-> <<>>, latest_file |-> AbsentFile]
    /\ metaFailed = FALSE
    /\ crashedIn = "none"
    /\ exported = None
    /\ committed = EmptyDict
    /\ rolledBack = 0

NextFilter == FilterVessels

SpecFilter == InitFilter /\ [][NextFilter]_vars

\* ------------------------------------------------------------ properties
AllMetaNull(row) ==
    /\ row.name = None /\ row.ship_type = None /\ row.destination = None
    /\ row.eta = None /\ row.draught = None

EntryMetaNull(entry) ==
    entry.name = None /\ entry.ship_type = None /\ entry.destination = None

RowsOf(table, t) == {i \in DOMAIN table : table[i].timestamp = t}

\* The position fetch of the current run returned no data (None or another
\* value that is false for "if not data").
FetchFailed ==
    /\ pc \notin {"START", "FETCH_POSITIONS"}
    /\ crashedIn # "START"
    /\ ~Truthy(data)

\* C1 (as claimed): when the position fetch fails, the store and the snapshot
\* file after the run are exactly what they were before it.
C1_StoreExactlyAsBefore == FetchFailed => (pc = "ABORT" /\ Persistent = pre)

\* C1 (amended): when the position fetch fails the run ends in ABORT with no
\* row appended to vessel_positions, none to collection_summary and the
\* snapshot file untouched; the database file and its tables exist afterwards,
\* created by init_database if they did not exist before.
C1_FetchFailureAppendsNothing ==
    FetchFailed =>
        /\ pc = "ABORT"
        /\ vessel_positions = pre.vessel_positions
        /\ collection_summary = pre.collection_summary
        /\ latest_file = pre.latest_file
        /\ schema

C1_Witness ==
    /\ pc = "ABORT"
    /\ data = None
    /\ run = 2
    /\ Len(pre.vessel_positions) = 2
    /\ Parse(pre.latest_file) # None

\* C2: when the metadata fetch fails (request failure, or an exception while
\* the payload is processed) the exception never ends the run: the lookup is
\* empty, every row the run inserts and every snapshot entry it writes has
\* null metadata, and a run that reaches DONE has stored one row per filtered
\* feature, one summary row and a complete snapshot of those features.  Until
\* DONE a next step of persisting or exporting is always available: only a
\* failure of the store or of the file can still end the run.
C2_MetadataFailureIsSoft ==
    metaFailed =>
        /\ pc \in {"PERSIST", "EXPORT", "DONE", "CRASHED"}
        /\ pc \in {"PERSIST", "EXPORT"} =>
              ENABLED (SaveInsert \/ SaveSummary \/ SaveCommit
                         \/ ExportOpen \/ ExportWrite \/ ExportClose)
        /\ pc = "CRASHED" => crashedIn \in {"PERSIST", "EXPORT"}
        /\ vessel_metadata = EmptyDict
        /\ \A i \in DOMAIN txn.positions : AllMetaNull(txn.positions[i])
        /\ \A i \in RowsOf(vessel_positions, run) : AllMetaNull(vessel_positions[i])
        /\ pc = "EXPORT" =>
              \A i \in DOMAIN latest_file.content :
                  latest_file.content[i].t = "vessel" /\ fh = "open"
                      => EntryMetaNull(latest_file.content[i].vessel)
        /\ pc = "DONE" =>
              /\ Cardinality(RowsOf(vessel_positions, run)) = Len(vessels)
              /\ Cardinality(RowsOf(collection_summary, run)) = 1
              /\ Parse(latest_file) # None
              /\ Parse(latest_file).timestamp = run
              /\ Len(Parse(latest_file).vessels) = Len(vessels)
              /\ \A i \in DOMAIN Parse(latest_file).vessels :
                    EntryMetaNull(Parse(latest_file).vessels[i])

C2_Witness ==
    /\ metaFailed
    /\ pc = "DONE"
    /\ response # None
    /\ Len(vessels) = 2
    /\ Cardinality(RowsOf(vessel_positions, run)) = 2

\* The box of the specification, (17.0, 30.3, 58.5, 66.0) in tenths of a degree.
InsideOrOnEdge(f) ==
    /\ 170 <= f.geometry.coordinates[1] /\ f.geometry.coordinates[1] <= 303
    /\ 585 <= f.geometry.coordinates[2] /\ f.geometry.coordinates[2] <= 660

\* C3: filter_vessels returns exactly the features of the input, in input
\* order, with 17.0 <= lon <= 30.3 and 58.5 <= lat <= 66.0; a feature on any
\* of the four edges is kept, a feature one step outside any edge is dropped.
C3_FilterExact ==
    (pc = "FETCH_METADATA" /\ "features" \in data.keys) =>
        /\ vessels = SelectSeq(data.features, InsideOrOnEdge)
        /\ \A i \in DOMAIN data.features :
              LET c == data.features[i].geometry.coordinates IN
              /\ (c[1] \in {170, 303} /\ c[2] \in {585, 660})
                    => \E j \in DOMAIN vessels : vessels[j] = data.features[i]
              /\ (c[1] \in {169, 304} \/ c[2] \in {584, 661})
                    => \A j \in DOMAIN vessels : vessels[j].geometry.coordinates # c

C3_Witness ==
    /\ pc = "FETCH_METADATA"
    /\ Len(data.features) = 2
    /\ data.features[1].geometry.coordinates = <<170, 660>>
    /\ data.features[2].geometry.coordinates = <<303, 661>>
    /\ vessels = <<data.features[1]>>

\* C4: a reader of latest.json finds either the complete snapshot the run
\* started with or the complete new one, at every point of the run.
C4_SnapshotReplacedAtomically ==
    \/ latest_file = pre.latest_file
    \/ /\ Parse(latest_file) # None
       /\ Parse(latest_file).timestamp = run

\* C5: in every committed state of the store, a run whose commit returned has
\* exactly one collection_summary row and one vessel_positions row per
\* filtered feature under its timestamp, with vessel_count equal to that
\* number of rows; any other run (not yet committed, aborted, or failed
\* partway through save_to_database) has no row at all; a run in DONE has
\* committed.
C5_RunRowsAllOrNone ==
    /\ \A t \in 1..run :
          LET np == Cardinality(RowsOf(vessel_positions, t))
              S == RowsOf(collection_summary, t)
          IN IF t \in DOMAIN committed
             THEN /\ Cardinality(S) = 1
                  /\ np = committed[t]
                  /\ \A i \in S : collection_summary[i].vessel_count = np
             ELSE np = 0 /\ S = {}
    /\ \A i \in DOMAIN vessel_positions : vessel_positions[i].timestamp \in 1..run
    /\ \A i \in DOMAIN collection_summary : collection_summary[i].timestamp \in 1..run
    /\ pc \in {"EXPORT", "DONE"} =>
          run \in DOMAIN committed /\ committed[run] = Len(vessels)

C5_Witness ==
    /\ pc = "CRASHED"
    /\ crashedIn = "PERSIST"
    /\ rolledBack = 3
    /\ run = 2
    /\ Len(vessel_positions) = 2
    /\ Len(collection_summary) = 1

\* C6: whenever the last run that opened the snapshot has closed it, the
\* snapshot parses to a document with that run's timestamp whose vessels are
\* that run's filtered features, one entry each in filter order, and whose
\* vessel_count is the number of entries.
C6_SnapshotIsLastExport ==
    (exported # None /\ exported.complete) =>
        LET doc == Parse(latest_file) IN
        /\ doc # None
        /\ doc.timestamp = exported.timestamp
        /\ doc.vessel_count = Len(doc.vessels)
        /\ Len(doc.vessels) = Len(exported.vessels)
        /\ \A i \in DOMAIN doc.vessels :
              /\ doc.vessels[i].mmsi = exported.vessels[i].properties.mmsi
              /\ <<doc.vessels[i].lon, doc.vessels[i].lat>>
                    = exported.vessels[i].geometry.coordinates

C6_Witness ==
    /\ run = 2
    /\ pc = "DONE"
    /\ exported.timestamp = 2
    /\ Len(exported.vessels) = 1
    /\ Parse(pre.latest_file) # None
    /\ Len(Parse(pre.latest_file).vessels) = 2

\* The metadata list the run received has an entry for this vessel identifier.
Listed(mmsi) ==
    /\ response # None
    /\ \E i \in DOMAIN response.entries : response.entries[i].mmsi = mmsi

\* C7: every row the run stored has a longitude and a latitude, and its
\* metadata fields are all null exactly when the metadata list has no entry
\* for the row's vessel identifier.
C7_MetadataNullIffNoEntry ==
    \A i \in RowsOf(vessel_positions, run) :
        LET row == vessel_positions[i] IN
        /\ row.longitude \in Int /\ row.latitude \in Int
        /\ AllMetaNull(row) <=> ~Listed(row.mmsi)

\* C8: a run whose save_to_database fails leaves the snapshot file as it was
\* when the run began, and a run's timestamp is in the snapshot file only if
\* the run's summary row is committed.
C8_NoExportWithoutCommit ==
    /\ (pc = "CRASHED" /\ crashedIn = "PERSIST") => latest_file = pre.latest_file
    /\ rolledBack > 0 => latest_file = pre.latest_file
    /\ \A i \in DOMAIN latest_file.content :
          latest_file.content[i].t = "timestamp"
              => RowsOf(collection_summary, latest_file.content[i].timestamp) # {}
    /\ exported # None => RowsOf(collection_summary, exported.timestamp) # {}

C8_Witness ==
    /\ pc = "CRASHED"
    /\ crashedIn = "PERSIST"
    /\ rolledBack > 0
    /\ Parse(latest_file) # None

\* A new invocation, or a step inside one state (one INSERT, one chunk).
OutsideOneRun == {<<"DONE", "START">>, <<"ABORT", "START">>, <<"CRASHED", "START">>}
UnhandledExits ==
    {<<"START", "CRASHED">>, <<"FILTER", "CRASHED">>, <<"PERSIST", "CRASHED">>,
     <<"EXPORT", "CRASHED">>}

ClaimedEdges ==
    {<<"START", "FETCH_POSITIONS">>, <<"FETCH_POSITIONS", "ABORT">>,
     <<"FETCH_POSITIONS", "FETCH_METADATA">>, <<"FETCH_METADATA", "FILTER">>,
     <<"FILTER", "JOIN">>, <<"JOIN", "PERSIST">>, <<"PERSIST", "EXPORT">>,
     <<"EXPORT", "DONE">>}

CodeEdges ==
    {<<"START", "FETCH_POSITIONS">>, <<"FETCH_POSITIONS", "ABORT">>,
     <<"FETCH_POSITIONS", "FILTER">>, <<"FILTER", "FETCH_METADATA">>,
     <<"FETCH_METADATA", "JOIN">>, <<"JOIN", "PERSIST">>, <<"PERSIST", "EXPORT">>,
     <<"EXPORT", "DONE">>}

\* C9 (as claimed): a run moves START, FETCH_POSITIONS, FETCH_METADATA, FILTER,
\* JOIN, PERSIST, EXPORT, DONE, or START, FETCH_POSITIONS, ABORT; the metadata
\* fetch comes before the filter.  Exits by an unhandled exception are not
\* counted against the claim here.
C9_ClaimedOrder ==
    [][pc' = pc \/ <<pc, pc'>> \in ClaimedEdges \cup UnhandledExits \cup OutsideOneRun]_vars

\* C9 (amended): a run moves START, FETCH_POSITIONS, FILTER, FETCH_METADATA,
\* JOIN, PERSIST, EXPORT, DONE, each at most once and none skipped: the filter
\* runs before the metadata fetch.  It leaves that path only to ABORT from
\* FETCH_POSITIONS, or by an unhandled exception in START, FILTER, PERSIST or
\* EXPORT, and a state once left is not entered again in the same run.
C9_CodeOrder ==
    [][pc' = pc \/ <<pc, pc'>> \in CodeEdges \cup UnhandledExits \cup OutsideOneRun]_vars

C9_Witness ==
    /\ pc = "DONE"
    /\ run = 2
    /\ response # None
    /\ Cardinality(RowsOf(vessel_positions, run)) = 1

\* C10: a feature without geometry or coordinates never ends the run in the
\* filter.
C10_MalformedFeatureSkipped == ~(pc = "CRASHED" /\ crashedIn = "FILTER")
====
